---- MODULE Spec2Model ----
(***************************************************************************)
(* A model of the Imprint record codec (src/src/serde.rs): the byte        *)
(* encodings of Value, MapKey, DirectoryEntry, SchemaId, Header and        *)
(* ImprintRecord, together with the writer, the by-id lookup, projection   *)
(* and merge that the codec's tests and benches drive.                     *)
(*                                                                         *)
(* Bytes are integers 0..255 and buffers are sequences of bytes.  A Value  *)
(* is a record of one uniform shape                                        *)
(*    [t, n, h, b, e, m, r]                                                *)
(* t: the TypeCode name; n: the scalar (Bool 0/1, the 32-bit word of an    *)
(* Int32 or Float32, the low word of an Int64 or Float64); h: the high     *)
(* word of a 64-bit scalar; b: the bytes of a Bytes or String; e: the      *)
(* elements of an Array; m: the (key, value) pairs of a Map, as a set;     *)
(* r: <<record>> for a Row.  Words are kept as signed 32-bit integers      *)
(* (two's complement), floats as their IEEE-754 bit patterns.              *)
(***************************************************************************)
EXTENDS Integers, Sequences, FiniteSets, TLC

VARIABLES
    writer,     \* <<>> or <<w>>: the ImprintWriter being filled
    log,        \* the successful add_field calls on writer, in call order
    rec,        \* <<>> or <<r>>: the record returned by build
    stash,      \* <<>> or <<r>>: an earlier built record kept by the caller
    stashLog,   \* the add_field calls that produced stash
    buf,        \* <<>> or <<bytes>>: the BytesMut that rec was written to
    rd,         \* <<>> or <<outcome>>: ImprintRecord::read of buf
    out,        \* <<>> or <<o>>: the result of project or merge
    val,        \* the Value handed to Value::write
    wout,       \* <<>> or <<outcome>>: Value::write of val
    rout,       \* <<>> or <<outcome>>: Value::read of the written bytes
    input,      \* the bytes handed to a decoder
    outcome     \* <<>> or <<outcome>>: what the decoder returned

vars == <<writer, log, rec, stash, stashLog, buf, rd, out, val, wout, rout, input, outcome>>

(***************************************************************************)
(* Bounds of the model.                                                    *)
(***************************************************************************)
MaxAdds == 3
MaxElems == 2
MaxInput == 2
MaxReq == 2

(***************************************************************************)
(* Program constants.                                                      *)
(***************************************************************************)
HEADER_BYTES == 15
DIR_ENTRY_BYTES == 7
MAGIC == 73
VERSION == 1
MAX_VARINT_LEN == 5

(***************************************************************************)
(* Buffers.                                                                *)
(***************************************************************************)
Drop(s, k) == SubSeq(s, k + 1, Len(s))
Take(s, k) == SubSeq(s, 1, k)
Max(a, b) == IF a >= b THEN a ELSE b

\* put_i32_le / put_u32_le / put_f32_le: the four bytes of a 32-bit word
PutWord(v) == [i \in 1..4 |-> (v \div (256 ^ (i - 1))) % 256]
\* get_i32_le / get_f32_le: the word of four bytes, two's complement
GetWord(b) == b[1] + 256 * b[2] + 65536 * b[3]
              + 16777216 * (IF b[4] >= 128 THEN b[4] - 256 ELSE b[4])
\* get_u32_le: the unsigned word of four bytes
GetU32(b) == b[1] + 256 * b[2] + 65536 * b[3] + 16777216 * b[4]
\* put_u16_le and get_u16_le
PutU16(v) == <<v % 256, (v \div 256) % 256>>
GetU16(b) == b[1] + 256 * b[2]
\* put_i64_le / put_f64_le and get_i64_le / get_f64_le on (high, low) words
PutWide(h, n) == PutWord(n) \o PutWord(h)

(***************************************************************************)
(* varint: unsigned LEB128 of a u32, at most five bytes.                   *)
(***************************************************************************)
RECURSIVE VarintEncode(_)
VarintEncode(v) ==
    IF v < 128 THEN <<v>> ELSE <<(v % 128) + 128>> \o VarintEncode(v \div 128)

RECURSIVE VarintDecodeFrom(_, _, _, _)
VarintDecodeFrom(bytes, i, mul, acc) ==
    IF i > MAX_VARINT_LEN THEN [err |-> "VarintError", value |-> 0, size |-> 0]
    ELSE IF i > Len(bytes) THEN [err |-> "BufferUnderflow", value |-> 0, size |-> 0]
    ELSE LET byte == bytes[i]
             bits == byte % 128
         IN  IF i = MAX_VARINT_LEN /\ bits > 15
             THEN [err |-> "VarintError", value |-> 0, size |-> 0]
             ELSE IF byte < 128
                  THEN [err |-> "", value |-> acc + bits * mul, size |-> i]
                  ELSE VarintDecodeFrom(bytes, i + 1, mul * 128, acc + bits * mul)

VarintDecode(bytes) == VarintDecodeFrom(bytes, 1, 1, 0)

(***************************************************************************)
(* TypeCode and its byte.                                                  *)
(***************************************************************************)
TypeCodes == <<"Null", "Bool", "Int32", "Int64", "Float32", "Float64",
               "Bytes", "String", "Array", "Map", "Row">>

TypeCodeByte(tc) == (CHOOSE i \in 1..Len(TypeCodes) : TypeCodes[i] = tc) - 1

TypeCodeTryFrom(byte) ==
    IF byte < Len(TypeCodes)
    THEN [err |-> "", tc |-> TypeCodes[byte + 1]]
    ELSE [err |-> "InvalidTypeCode", tc |-> "Null"]

MapKeyKinds == {"Int32", "Int64", "Bytes", "String"}

(***************************************************************************)
(* Values.                                                                 *)
(***************************************************************************)
Mk(t, n, h, b, e, m, r) == [t |-> t, n |-> n, h |-> h, b |-> b, e |-> e, m |-> m, r |-> r]
VNull == Mk("Null", 0, 0, <<>>, <<>>, {}, <<>>)
VBool(x) == Mk("Bool", IF x THEN 1 ELSE 0, 0, <<>>, <<>>, {}, <<>>)
VInt32(n) == Mk("Int32", n, 0, <<>>, <<>>, {}, <<>>)
VInt64(h, n) == Mk("Int64", n, h, <<>>, <<>>, {}, <<>>)
VFloat32(n) == Mk("Float32", n, 0, <<>>, <<>>, {}, <<>>)
VFloat64(h, n) == Mk("Float64", n, h, <<>>, <<>>, {}, <<>>)
VBytes(b) == Mk("Bytes", 0, 0, b, <<>>, {}, <<>>)
VString(b) == Mk("String", 0, 0, b, <<>>, {}, <<>>)
VArray(e) == Mk("Array", 0, 0, <<>>, e, {}, <<>>)
VMap(m) == Mk("Map", 0, 0, <<>>, <<>>, m, <<>>)
VRow(r) == Mk("Row", 0, 0, <<>>, <<>>, {}, <<r>>)

\* String::from_utf8: whether the bytes are well-formed UTF-8
RECURSIVE Utf8Valid(_)
Utf8Valid(b) ==
    LET n == Len(b)
        Cont(i) == i <= n /\ b[i] >= 128 /\ b[i] <= 191
        In(i, lo, hi) == i <= n /\ b[i] >= lo /\ b[i] <= hi
    IN  IF n = 0 THEN TRUE
        ELSE IF b[1] < 128 THEN Utf8Valid(Drop(b, 1))
        ELSE IF b[1] >= 194 /\ b[1] <= 223
             THEN Cont(2) /\ Utf8Valid(Drop(b, 2))
        ELSE IF b[1] = 224
             THEN In(2, 160, 191) /\ Cont(3) /\ Utf8Valid(Drop(b, 3))
        ELSE IF (b[1] >= 225 /\ b[1] <= 236) \/ b[1] = 238 \/ b[1] = 239
             THEN Cont(2) /\ Cont(3) /\ Utf8Valid(Drop(b, 3))
        ELSE IF b[1] = 237
             THEN In(2, 128, 159) /\ Cont(3) /\ Utf8Valid(Drop(b, 3))
        ELSE IF b[1] = 240
             THEN In(2, 144, 191) /\ Cont(3) /\ Cont(4) /\ Utf8Valid(Drop(b, 4))
        ELSE IF b[1] >= 241 /\ b[1] <= 243
             THEN Cont(2) /\ Cont(3) /\ Cont(4) /\ Utf8Valid(Drop(b, 4))
        ELSE IF b[1] = 244
             THEN In(2, 128, 143) /\ Cont(3) /\ Cont(4) /\ Utf8Valid(Drop(b, 4))
        ELSE FALSE

(***************************************************************************)
(* Records: [header, directory, payload].                                  *)
(***************************************************************************)
MkSchemaId(f, s) == [fieldspace_id |-> f, schema_hash |-> s]
MkHeader(flags, sid, size) == [flags |-> flags, schema_id |-> sid, payload_size |-> size]
MkEntry(id, tc, off) == [id |-> id, type_code |-> tc, offset |-> off]
MkRecord(h, d, p) == [header |-> h, directory |-> d, payload |-> p]

(***************************************************************************)
(* Write: what a write appends to the buffer, and its result.              *)
(* err = "" is Ok(()).                                                     *)
(***************************************************************************)
WOk(bytes) == [err |-> "", bytes |-> bytes]
WErr(e, bytes) == [err |-> e, bytes |-> bytes]
WThen(o, w) == [err |-> w.err, bytes |-> o.bytes \o w.bytes]

\* DirectoryEntryWrite with the offset ahead of the id and the type code
DirectoryEntryWriteOffsetFirst(e) ==
    PutWord(e.offset) \o PutU16(e.id) \o <<TypeCodeByte(e.type_code)>>

\* impl Write for DirectoryEntry
DirectoryEntryWrite(e) ==
    PutU16(e.id) \o <<TypeCodeByte(e.type_code)>> \o PutWord(e.offset)

\* impl Write for SchemaId
SchemaIdWrite(s) == PutWord(s.fieldspace_id) \o PutWord(s.schema_hash)

\* HeaderWrite with the flags byte of a fresh record
HeaderWriteFreshFlags(h) ==
    <<MAGIC, VERSION, 0>> \o SchemaIdWrite(h.schema_id) \o PutWord(h.payload_size)

\* impl Write for Header
HeaderWrite(h) ==
    <<MAGIC, VERSION, h.flags>> \o SchemaIdWrite(h.schema_id) \o PutWord(h.payload_size)

RECURSIVE DirectoryWrite(_, _)
DirectoryWrite(dir, i) ==
    IF i > Len(dir) THEN <<>>
    ELSE DirectoryEntryWrite(dir[i]) \o DirectoryWrite(dir, i + 1)

\* impl Write for ImprintRecord
RecordWrite(r) ==
    WOk(HeaderWrite(r.header) \o VarintEncode(Len(r.directory))
        \o DirectoryWrite(r.directory, 1) \o r.payload)

\* impl Write for MapKey
MapKeyWrite(k) ==
    CASE k.t = "Int32" -> PutWord(k.n)
      [] k.t = "Int64" -> PutWide(k.h, k.n)
      [] k.t = "Bytes" -> VarintEncode(Len(k.b)) \o k.b
      [] k.t = "String" -> VarintEncode(Len(k.b)) \o k.b

\* the orders in which a HashMap may hand out its entries
IterationOrders(m) ==
    {s \in [1..Cardinality(m) -> m] : \A i, j \in 1..Cardinality(m) : s[i] = s[j] => i = j}

RECURSIVE ValueWrites(_)
RECURSIVE WriteElems(_, _, _, _)
RECURSIVE WriteEntries(_, _, _, _, _)

\* Value::write, Self::Array: the elements after the count and the type code
WriteElems(elems, i, tc, acc) ==
    IF i > Len(elems) THEN acc
    ELSE WriteElems(elems, i + 1, tc,
            UNION { IF o.err # "" THEN {o}
                    ELSE IF elems[i].t # tc THEN {WErr("SchemaError", o.bytes)}
                    ELSE {WThen(o, w) : w \in ValueWrites(elems[i])} : o \in acc })

\* WriteArray comparing only the first two elements with the first type code,
\* and the later ones with the third
WriteArrayHeadChecked(v) ==
    LET count == VarintEncode(Len(v.e))
        head == SubSeq(v.e, 1, IF Len(v.e) < 2 THEN Len(v.e) ELSE 2)
        rest == [i \in 1..(Len(v.e) - Len(head)) |-> v.e[i + Len(head)]]
    IN  IF v.e = <<>> THEN {WOk(count)}
        ELSE UNION { IF o.err # "" THEN {o}
                     ELSE IF rest = <<>> THEN {o}
                     ELSE WriteElems(rest, 1, rest[1].t, {o})
                     : o \in WriteElems(head, 1, v.e[1].t,
                                        {WOk(count \o <<TypeCodeByte(v.e[1].t)>>)}) }

\* Value::write, Self::Array
WriteArray(v) ==
    LET count == VarintEncode(Len(v.e))
    IN  IF v.e = <<>> THEN {WOk(count)}
        ELSE WriteElems(v.e, 1, v.e[1].t, {WOk(count \o <<TypeCodeByte(v.e[1].t)>>)})

\* Value::write, Self::Map: the entries, in one iteration order
WriteEntries(order, i, ktc, vtc, acc) ==
    IF i > Len(order) THEN acc
    ELSE WriteEntries(order, i + 1, ktc, vtc,
            UNION { IF o.err # "" THEN {o}
                    ELSE IF order[i][1].t # ktc THEN {WErr("SchemaError", o.bytes)}
                    ELSE IF order[i][2].t # vtc THEN {WErr("SchemaError", o.bytes)}
                    ELSE {WThen(WThen(o, WOk(MapKeyWrite(order[i][1]))), w) :
                             w \in ValueWrites(order[i][2])} : o \in acc })

\* Value::write, Self::Map
WriteMap(v) ==
    LET count == VarintEncode(Cardinality(v.m))
    IN  IF v.m = {} THEN {WOk(count)}
        ELSE UNION { WriteEntries(order, 1, order[1][1].t, order[1][2].t,
                        {WOk(count \o <<TypeCodeByte(order[1][1].t),
                                        TypeCodeByte(order[1][2].t)>>)})
                     : order \in IterationOrders(v.m) }

\* impl Write for Value: every outcome the write may have
ValueWrites(v) ==
    CASE v.t = "Null" -> {WOk(<<>>)}
      [] v.t = "Bool" -> {WOk(<<IF v.n = 1 THEN 1 ELSE 0>>)}
      [] v.t = "Int32" -> {WOk(PutWord(v.n))}
      [] v.t = "Int64" -> {WOk(PutWide(v.h, v.n))}
      [] v.t = "Float32" -> {WOk(PutWord(v.n))}
      [] v.t = "Float64" -> {WOk(PutWide(v.h, v.n))}
      [] v.t = "Bytes" -> {WOk(VarintEncode(Len(v.b)) \o v.b)}
      [] v.t = "String" -> {WOk(VarintEncode(Len(v.b)) \o v.b)}
      [] v.t = "Array" -> WriteArray(v)
      [] v.t = "Map" -> WriteMap(v)
      [] v.t = "Row" -> {RecordWrite(v.r[1])}

(***************************************************************************)
(* Read: the outcome of a read.  kind is "Ok", "Err" (an ImprintError      *)
(* returned as a value, named by err) or "Panic" (the thread unwinds: a    *)
(* get_u8 on an empty buffer, a slice past the end).  size is the number   *)
(* of bytes the read reports as consumed and cap the largest capacity the  *)
(* read asked a collection to reserve.                                     *)
(***************************************************************************)
ROk(v, size, cap) == [kind |-> "Ok", err |-> "", value |-> <<v>>, size |-> size, cap |-> cap]
RErr(e, cap) == [kind |-> "Err", err |-> e, value |-> <<>>, size |-> 0, cap |-> cap]
RPanic(cap) == [kind |-> "Panic", err |-> "", value |-> <<>>, size |-> 0, cap |-> cap]
RWithCap(o, cap) == [o EXCEPT !.cap = Max(o.cap, cap)]

\* impl Read for SchemaId
SchemaIdRead(bytes) ==
    IF Len(bytes) < 8 THEN RErr("BufferUnderflow", 0)
    ELSE ROk(MkSchemaId(GetU32(SubSeq(bytes, 1, 4)), GetU32(SubSeq(bytes, 5, 8))), 8, 0)

\* Flags::new(byte): the byte is kept whole, unknown bits included
FlagsNew(byte) == byte

\* HeaderRead without the test of the version byte
HeaderReadAnyVersion(bytes) ==
    IF Len(bytes) < HEADER_BYTES THEN RErr("BufferUnderflow", 0)
    ELSE IF bytes[1] # MAGIC THEN RErr("InvalidMagic", 0)
    ELSE LET sid == SchemaIdRead(Drop(bytes, 3))
         IN  IF sid.kind # "Ok" THEN sid
             ELSE ROk(MkHeader(FlagsNew(bytes[3]), sid.value[1], GetU32(SubSeq(bytes, 12, 15))),
                      HEADER_BYTES, 0)

\* impl Read for Header
HeaderRead(bytes) ==
    IF Len(bytes) < HEADER_BYTES THEN RErr("BufferUnderflow", 0)
    ELSE IF bytes[1] # MAGIC THEN RErr("InvalidMagic", 0)
    ELSE IF bytes[2] # VERSION THEN RErr("UnsupportedVersion", 0)
    ELSE LET sid == SchemaIdRead(Drop(bytes, 3))
         IN  IF sid.kind # "Ok" THEN sid
             ELSE ROk(MkHeader(FlagsNew(bytes[3]), sid.value[1], GetU32(SubSeq(bytes, 12, 15))),
                      HEADER_BYTES, 0)

\* impl Read for DirectoryEntry
DirectoryEntryRead(bytes) ==
    IF Len(bytes) < DIR_ENTRY_BYTES THEN RErr("BufferUnderflow", 0)
    ELSE LET tc == TypeCodeTryFrom(bytes[3])
         IN  IF tc.err # "" THEN RErr(tc.err, 0)
             ELSE ROk(MkEntry(GetU16(SubSeq(bytes, 1, 2)), tc.tc, GetU32(SubSeq(bytes, 4, 7))),
                      DIR_ENTRY_BYTES, 0)

\* ImprintRecord::read: the loop over the directory entries
RECURSIVE DirectoryRead(_, _, _, _)
DirectoryRead(bytes, count, directory, bytes_read) ==
    IF count = 0 THEN ROk(directory, bytes_read, 0)
    ELSE LET e == DirectoryEntryRead(bytes)
         IN  IF e.kind # "Ok" THEN e
             ELSE DirectoryRead(Drop(bytes, e.size), count - 1,
                                Append(directory, e.value[1]), bytes_read + e.size)

\* PayloadSlice that takes every remaining byte as the payload
PayloadSliceRest(bytes, payload_size) == ROk(bytes, Len(bytes), 0)

\* ImprintRecord::read: bytes.slice(..header.payload_size)
PayloadSlice(bytes, payload_size) ==
    IF payload_size > Len(bytes) THEN RPanic(0)
    ELSE ROk(Take(bytes, payload_size), payload_size, 0)

\* impl Read for ImprintRecord
RecordRead(bytes) ==
    LET h == HeaderRead(bytes)
    IN  IF h.kind # "Ok" THEN h
        ELSE
        LET afterHeader == Drop(bytes, h.size)
            c == VarintDecode(afterHeader)
        IN  IF c.err # "" THEN RErr(c.err, 0)
            ELSE
            LET d == DirectoryRead(Drop(afterHeader, c.size), c.value, <<>>,
                                   h.size + c.size)
            IN  IF d.kind # "Ok" THEN d
                ELSE
                LET p == PayloadSlice(Drop(bytes, d.size), h.value[1].payload_size)
                IN  IF p.kind # "Ok" THEN p
                    ELSE ROk(MkRecord(h.value[1], d.value[1], p.value[1]),
                             d.size + p.size, 0)

\* MapKey::try_from(Value)
MapKeyTryFrom(v) ==
    IF v.t \in MapKeyKinds THEN [err |-> "", key |-> v]
    ELSE [err |-> "SchemaError", key |-> v]

\* HashMap::insert
MapInsert(m, k, v) == {p \in m : p[1] # k} \cup {<<k, v>>}

RECURSIVE ValueRead(_, _)
RECURSIVE ReadElems(_, _, _, _, _, _)
RECURSIVE ReadEntries(_, _, _, _, _, _, _)

\* Value::read, the fixed-width kinds
ReadBool(bytes) ==
    IF Len(bytes) = 0 THEN RErr("BufferUnderflow", 0)
    ELSE IF bytes[1] = 0 THEN ROk(VBool(FALSE), 1, 0)
    ELSE IF bytes[1] = 1 THEN ROk(VBool(TRUE), 1, 0)
    ELSE RErr("SchemaError", 0)

ReadInt32(bytes) ==
    IF Len(bytes) < 4 THEN RErr("BufferUnderflow", 0)
    ELSE ROk(VInt32(GetWord(Take(bytes, 4))), 4, 0)

\* ReadInt64 with the two words of the value taken in the wrong order
ReadInt64Swapped(bytes) ==
    IF Len(bytes) < 8 THEN RErr("BufferUnderflow", 0)
    ELSE ROk(VInt64(GetWord(Take(bytes, 4)), GetWord(SubSeq(bytes, 5, 8))), 8, 0)

ReadInt64(bytes) ==
    IF Len(bytes) < 8 THEN RErr("BufferUnderflow", 0)
    ELSE ROk(VInt64(GetWord(SubSeq(bytes, 5, 8)), GetWord(Take(bytes, 4))), 8, 0)

ReadFloat32(bytes) ==
    IF Len(bytes) < 4 THEN RErr("BufferUnderflow", 0)
    ELSE ROk(VFloat32(GetWord(Take(bytes, 4))), 4, 0)

ReadFloat64(bytes) ==
    IF Len(bytes) < 8 THEN RErr("BufferUnderflow", 0)
    ELSE ROk(VFloat64(GetWord(SubSeq(bytes, 5, 8)), GetWord(Take(bytes, 4))), 8, 0)

\* Value::read, TypeCode::Bytes
ReadBytes(bytes) ==
    LET l == VarintDecode(bytes)
    IN  IF l.err # "" THEN RErr(l.err, 0)
        ELSE IF Len(bytes) - l.size < l.value THEN RErr("BufferUnderflow", 0)
        ELSE ROk(VBytes(SubSeq(bytes, l.size + 1, l.size + l.value)), l.size + l.value, 0)

\* Value::read, TypeCode::String
ReadString(bytes) ==
    LET l == VarintDecode(bytes)
    IN  IF l.err # "" THEN RErr(l.err, 0)
        ELSE IF Len(bytes) - l.size < l.value THEN RErr("BufferUnderflow", 0)
        ELSE LET v == SubSeq(bytes, l.size + 1, l.size + l.value)
             IN  IF Utf8Valid(v) THEN ROk(VString(v), l.size + l.value, 0)
                 ELSE RErr("InvalidUtf8String", 0)

\* Value::read, TypeCode::Array: the loop over the elements
ReadElems(tc, bytes, left, values, bytes_read, cap) ==
    IF left = 0 THEN ROk(VArray(values), bytes_read, cap)
    ELSE LET r == ValueRead(tc, bytes)
         IN  IF r.kind # "Ok" THEN RWithCap(r, cap)
             ELSE ReadElems(tc, Drop(bytes, r.size), left - 1,
                            Append(values, r.value[1]), bytes_read + r.size,
                            Max(cap, r.cap))

\* ReadArray with the element type byte left out of bytes_read
ReadArrayMiscount(bytes) ==
    LET l == VarintDecode(bytes)
    IN  IF l.err # "" THEN RErr(l.err, 0)
        ELSE IF l.value = 0 THEN ROk(VArray(<<>>), l.size, 0)
        ELSE IF Len(bytes) = l.size THEN RPanic(0)
        ELSE LET et == TypeCodeTryFrom(bytes[l.size + 1])
             IN  IF et.err # "" THEN RErr(et.err, 0)
                 ELSE ReadElems(et.tc, Drop(bytes, l.size + 1), l.value, <<>>,
                                l.size, l.value)

\* Value::read, TypeCode::Array
ReadArray(bytes) ==
    LET l == VarintDecode(bytes)
    IN  IF l.err # "" THEN RErr(l.err, 0)
        ELSE IF l.value = 0 THEN ROk(VArray(<<>>), l.size, 0)
        ELSE IF Len(bytes) = l.size THEN RPanic(0)
        ELSE LET et == TypeCodeTryFrom(bytes[l.size + 1])
             IN  IF et.err # "" THEN RErr(et.err, 0)
                 ELSE ReadElems(et.tc, Drop(bytes, l.size + 1), l.value, <<>>,
                                l.size + 1, l.value)

\* impl ValueRead for MapKey
MapKeyRead(tc, bytes) ==
    LET r == ValueRead(tc, bytes)
    IN  IF r.kind # "Ok" THEN r
        ELSE IF MapKeyTryFrom(r.value[1]).err # ""
             THEN RErr(MapKeyTryFrom(r.value[1]).err, r.cap)
             ELSE r

\* Value::read, TypeCode::Map: the loop over the entries
ReadEntries(ktc, vtc, bytes, left, map, bytes_read, cap) ==
    IF left = 0 THEN ROk(VMap(map), bytes_read, cap)
    ELSE LET k == MapKeyRead(ktc, bytes)
         IN  IF k.kind # "Ok" THEN RWithCap(k, cap)
             ELSE LET v == ValueRead(vtc, Drop(bytes, k.size))
                  IN  IF v.kind # "Ok" THEN RWithCap(v, Max(cap, k.cap))
                      ELSE ReadEntries(ktc, vtc, Drop(bytes, k.size + v.size), left - 1,
                                       MapInsert(map, k.value[1], v.value[1]),
                                       bytes_read + k.size + v.size,
                                       Max(cap, Max(k.cap, v.cap)))

\* ReadMap taking the value type from the first tag byte and the key type from the second
ReadMapSwapped(bytes) ==
    LET l == VarintDecode(bytes)
    IN  IF l.err # "" THEN RErr(l.err, 0)
        ELSE IF l.value = 0 THEN ROk(VMap({}), l.size, 0)
        ELSE IF Len(bytes) = l.size THEN RPanic(0)
        ELSE LET vt == TypeCodeTryFrom(bytes[l.size + 1])
             IN  IF vt.err # "" THEN RErr(vt.err, 0)
                 ELSE IF Len(bytes) = l.size + 1 THEN RPanic(0)
                 ELSE LET kt == TypeCodeTryFrom(bytes[l.size + 2])
                      IN  IF kt.err # "" THEN RErr(kt.err, 0)
                          ELSE ReadEntries(kt.tc, vt.tc, Drop(bytes, l.size + 2), l.value,
                                           {}, l.size + 2, l.value)

\* Value::read, TypeCode::Map
ReadMap(bytes) ==
    LET l == VarintDecode(bytes)
    IN  IF l.err # "" THEN RErr(l.err, 0)
        ELSE IF l.value = 0 THEN ROk(VMap({}), l.size, 0)
        ELSE IF Len(bytes) = l.size THEN RPanic(0)
        ELSE LET kt == TypeCodeTryFrom(bytes[l.size + 1])
             IN  IF kt.err # "" THEN RErr(kt.err, 0)
                 ELSE IF Len(bytes) = l.size + 1 THEN RPanic(0)
                 ELSE LET vt == TypeCodeTryFrom(bytes[l.size + 2])
                      IN  IF vt.err # "" THEN RErr(vt.err, 0)
                          ELSE ReadEntries(kt.tc, vt.tc, Drop(bytes, l.size + 2), l.value,
                                           {}, l.size + 2, l.value)

\* Value::read, TypeCode::Row
ReadRow(bytes) ==
    LET r == RecordRead(bytes)
    IN  IF r.kind # "Ok" THEN r ELSE ROk(VRow(r.value[1]), r.size, 0)

\* impl ValueRead for Value
ValueRead(tc, bytes) ==
    CASE tc = "Null" -> ROk(VNull, 0, 0)
      [] tc = "Bool" -> ReadBool(bytes)
      [] tc = "Int32" -> ReadInt32(bytes)
      [] tc = "Int64" -> ReadInt64(bytes)
      [] tc = "Float32" -> ReadFloat32(bytes)
      [] tc = "Float64" -> ReadFloat64(bytes)
      [] tc = "Bytes" -> ReadBytes(bytes)
      [] tc = "String" -> ReadString(bytes)
      [] tc = "Array" -> ReadArray(bytes)
      [] tc = "Map" -> ReadMap(bytes)
      [] tc = "Row" -> ReadRow(bytes)

(***************************************************************************)
(* ImprintWriter (spec section 4.1).  The writer keeps its directory in    *)
(* insertion order, each entry with the offset and the length of its value *)
(* in the writer's payload buffer; a replaced value stays behind in the    *)
(* buffer as garbage.  build copies the live values to a fresh payload in  *)
(* insertion order and sorts the directory by id.                          *)
(***************************************************************************)
WriterNew(sid) == [schema_id |-> sid, directory |-> <<>>, payload |-> <<>>]

WriterIndexOf(w, id) ==
    IF \E i \in 1..Len(w.directory) : w.directory[i].id = id
    THEN CHOOSE i \in 1..Len(w.directory) : w.directory[i].id = id
    ELSE 0

\* WriterPut that keeps the entry an id already has (first write wins)
WriterPutKeepFirst(w, id, tc, bytes) ==
    LET entry == [id |-> id, type_code |-> tc, offset |-> Len(w.payload), len |-> Len(bytes)]
        at == WriterIndexOf(w, id)
    IN  [w EXCEPT !.payload = w.payload \o bytes,
                  !.directory = IF at = 0 THEN Append(w.directory, entry)
                                ELSE w.directory]

\* add_field with the value's encoding: replace the entry of id, or append
WriterPut(w, id, tc, bytes) ==
    LET entry == [id |-> id, type_code |-> tc, offset |-> Len(w.payload), len |-> Len(bytes)]
        at == WriterIndexOf(w, id)
    IN  [w EXCEPT !.payload = w.payload \o bytes,
                  !.directory = IF at = 0 THEN Append(w.directory, entry)
                                ELSE [w.directory EXCEPT ![at] = entry]]

\* ImprintWriter::add_field: every outcome, [err, writer]
WriterAddField(w, id, v) ==
    { IF o.err # "" THEN [err |-> o.err, writer |-> w]
      ELSE [err |-> "", writer |-> WriterPut(w, id, v.t, o.bytes)] : o \in ValueWrites(v) }

\* build, step 2: the live values copied in insertion order, with new offsets
RECURSIVE WriterCompact(_, _, _, _)
WriterCompact(w, i, directory, payload) ==
    IF i > Len(w.directory) THEN [directory |-> directory, payload |-> payload]
    ELSE LET e == w.directory[i]
         IN  WriterCompact(w, i + 1,
                 Append(directory, MkEntry(e.id, e.type_code, Len(payload))),
                 payload \o SubSeq(w.payload, e.offset + 1, e.offset + e.len))

\* SortById that leaves the directory in insertion order
SortByIdSkipped(dir) == dir

\* build, step 1: the directory sorted ascending by id (a stable insertion sort)
RECURSIVE SortById(_)
SortById(dir) ==
    IF Len(dir) <= 1 THEN dir
    ELSE LET rest == SortById(Take(dir, Len(dir) - 1))
             last == dir[Len(dir)]
             k == Cardinality({i \in 1..Len(rest) : rest[i].id <= last.id})
         IN  Take(rest, k) \o <<last>> \o Drop(rest, k)

\* ImprintWriter::build
WriterBuild(w) ==
    LET c == WriterCompact(w, 1, <<>>, <<>>)
    IN  MkRecord(MkHeader(0, w.schema_id, Len(c.payload)), SortById(c.directory), c.payload)

(***************************************************************************)
(* ImprintRecord::get_value (spec section 4.3): a binary search of the     *)
(* directory, then Value::read at payload[offset..].  kind "None" is       *)
(* Ok(None); kind "Ok" is Ok(Some(value)).                                 *)
(***************************************************************************)
RNone == [kind |-> "None", err |-> "", value |-> <<>>, size |-> 0, cap |-> 0]

RECURSIVE BinarySearch(_, _, _, _)
BinarySearch(dir, id, lo, hi) ==
    IF lo > hi THEN 0
    ELSE LET mid == (lo + hi) \div 2
         IN  IF dir[mid].id = id THEN mid
             ELSE IF dir[mid].id < id THEN BinarySearch(dir, id, mid + 1, hi)
             ELSE BinarySearch(dir, id, lo, mid - 1)

GetValue(r, id) ==
    LET at == BinarySearch(r.directory, id, 1, Len(r.directory))
    IN  IF at = 0 THEN RNone
        ELSE IF r.directory[at].offset > Len(r.payload) THEN RErr("BufferUnderflow", 0)
        ELSE ValueRead(r.directory[at].type_code, Drop(r.payload, r.directory[at].offset))

(***************************************************************************)
(* Projection and merge (spec sections 4.6 and 4.7).  Neither decodes a    *)
(* value: each copies the byte span of a field, which runs from the        *)
(* field's offset to the offset of the next field in payload order, or to  *)
(* the end of the payload; a Null occupies no bytes.                       *)
(***************************************************************************)
DirectoryIds(r) == {r.directory[i].id : i \in 1..Len(r.directory)}

EntryOf(r, id) == r.directory[CHOOSE i \in 1..Len(r.directory) : r.directory[i].id = id]

Min(S) == CHOOSE x \in S : \A y \in S : x <= y

\* the span that ends at the offset of the next directory entry (in id order)
SpanEndByDirectory(r, e) ==
    LET at == CHOOSE i \in 1..Len(r.directory) : r.directory[i] = e
    IN  IF at < Len(r.directory) THEN Max(r.directory[at + 1].offset, e.offset)
        ELSE Len(r.payload)

\* where the span of entry e ends: the next offset in payload order, or the payload end
SpanEnd(r, e) ==
    LET later == {r.directory[i].offset : i \in 1..Len(r.directory)}
                    \cap (e.offset + 1 .. Len(r.payload))
    IN  IF e.type_code = "Null" THEN e.offset
        ELSE IF later = {} THEN Len(r.payload)
        ELSE Min(later)

Span(r, e) == SubSeq(r.payload, e.offset + 1, SpanEnd(r, e))

\* the ids of a request, sorted ascending and deduplicated
RECURSIVE SortedIds(_)
SortedIds(S) == IF S = {} THEN <<>> ELSE <<Min(S)>> \o SortedIds(S \ {Min(S)})

RequestIds(ids) == SortedIds({ids[i] : i \in 1..Len(ids)})

\* the selected spans, copied in result order, with their new offsets
RECURSIVE ProjectCopy(_, _, _, _, _)
ProjectCopy(r, ids, i, directory, payload) ==
    IF i > Len(ids) THEN [directory |-> directory, payload |-> payload]
    ELSE IF ids[i] \notin DirectoryIds(r) THEN ProjectCopy(r, ids, i + 1, directory, payload)
    ELSE LET e == EntryOf(r, ids[i])
         IN  ProjectCopy(r, ids, i + 1,
                 Append(directory, MkEntry(e.id, e.type_code, Len(payload))),
                 payload \o Span(r, e))

\* ImprintRecord::project
Project(r, ids) ==
    LET c == ProjectCopy(r, RequestIds(ids), 1, <<>>, <<>>)
    IN  MkRecord(MkHeader(r.header.flags, r.header.schema_id, Len(c.payload)),
                 c.directory, c.payload)

\* ImprintRecord::merge: the two-pointer walk over both sorted directories
RECURSIVE MergeWalk(_, _, _, _, _, _)
MergeWalk(a, b, i, j, directory, payload) ==
    LET takeA == MergeWalk(a, b, i + 1,
                     IF j <= Len(b.directory) /\ b.directory[j].id = a.directory[i].id
                     THEN j + 1 ELSE j,
                     Append(directory, MkEntry(a.directory[i].id, a.directory[i].type_code,
                                               Len(payload))),
                     payload \o Span(a, a.directory[i]))
        takeB == MergeWalk(a, b,
                     IF i <= Len(a.directory) /\ a.directory[i].id = b.directory[j].id
                     THEN i + 1 ELSE i,
                     j + 1,
                     Append(directory, MkEntry(b.directory[j].id, b.directory[j].type_code,
                                               Len(payload))),
                     payload \o Span(b, b.directory[j]))
    IN  IF i > Len(a.directory) /\ j > Len(b.directory)
        THEN [directory |-> directory, payload |-> payload]
        ELSE IF j > Len(b.directory) THEN takeA
        ELSE IF i > Len(a.directory) THEN takeB
        ELSE IF a.directory[i].id < b.directory[j].id THEN takeA
        ELSE IF a.directory[i].id > b.directory[j].id THEN takeB
        ELSE takeA

\* Merge with the walk's two records exchanged: the argument wins a conflict
MergeOtherWins(a, b) ==
    LET c == MergeWalk(b, a, 1, 1, <<>>, <<>>)
    IN  MkRecord(MkHeader(a.header.flags, a.header.schema_id, Len(c.payload)),
                 c.directory, c.payload)

\* ImprintRecord::merge
Merge(a, b) ==
    LET c == MergeWalk(a, b, 1, 1, <<>>, <<>>)
    IN  MkRecord(MkHeader(a.header.flags, a.header.schema_id, Len(c.payload)),
                 c.directory, c.payload)

(***************************************************************************)
(* The values and schema ids the model draws its inputs from.              *)
(***************************************************************************)
SchemaIds == {MkSchemaId(1, 48879), MkSchemaId(2, 51966)}

\* a record built by a writer from one field
RowOf(sid, id, v) ==
    WriterBuild((CHOOSE o \in WriterAddField(WriterNew(sid), id, v) : TRUE).writer)

ElemPool(kind) ==
    CASE kind = "Null" -> {VNull}
      [] kind = "Bool" -> {VBool(FALSE), VBool(TRUE)}
      [] kind = "Int32" -> {VInt32(-7), VInt32(258)}
      [] kind = "Int64" -> {VInt64(2, 1410065408), VInt64(-1, -2)}
      [] kind = "Float32" -> {VFloat32(1069547520), VFloat32(2143289344)}
      [] kind = "Float64" -> {VFloat64(-1074266112, 0), VFloat64(2146959360, 1)}
      [] kind = "Bytes" -> {VBytes(<<>>), VBytes(<<0, 255>>)}
      [] kind = "String" -> {VString(<<>>), VString(<<104, 195, 169>>)}
      [] kind = "Array" -> {VArray(<<>>), VArray(<<VInt32(258)>>), VArray(<<VNull, VNull>>)}
      [] kind = "Map" -> {VMap({}), VMap({<<VInt32(1), VBool(TRUE)>>, <<VInt32(2), VBool(FALSE)>>})}
      [] kind = "Row" -> {VRow(RowOf(MkSchemaId(1, 48879), 1, VInt32(42))),
                          VRow(RowOf(MkSchemaId(2, 51966), 2, VString(<<104, 105>>)))}

KeyPool(kind) ==
    CASE kind = "Int32" -> {VInt32(1), VInt32(-2)}
      [] kind = "Int64" -> {VInt64(0, 1), VInt64(-1, -1)}
      [] kind = "Bytes" -> {VBytes(<<>>), VBytes(<<9>>)}
      [] kind = "String" -> {VString(<<>>), VString(<<97>>)}

AllKinds == {TypeCodes[i] : i \in 1..Len(TypeCodes)}

ArrayInputs ==
    UNION { UNION { {VArray(s) : s \in [1..k -> ElemPool(kind)]} : k \in 0..MaxElems }
            : kind \in AllKinds }

MapsOf(K, V) ==
    UNION { { {<<k, f[k]>> : k \in D} : f \in [D -> V] }
            : D \in {X \in SUBSET K : Cardinality(X) <= MaxElems} }

MapInputs ==
    UNION { UNION { {VMap(m) : m \in MapsOf(KeyPool(kk), ElemPool(vk))} : vk \in AllKinds }
            : kk \in MapKeyKinds }

ValueInputs == ArrayInputs \cup MapInputs

\* every Array and Map inside v is homogeneous, and every Map key is a MapKey
RECURSIVE WellFormed(_)
WellFormed(v) ==
    /\ \A i, j \in 1..Len(v.e) : v.e[i].t = v.e[j].t
    /\ \A i \in 1..Len(v.e) : WellFormed(v.e[i])
    /\ \A p, q \in v.m : p[1].t = q[1].t /\ p[2].t = q[2].t
    /\ \A p \in v.m : p[1].t \in MapKeyKinds /\ WellFormed(p[2])

(***************************************************************************)
(* The state machines.  Three callers drive the codec: one writes a Value  *)
(* and reads it back (SpecValue), one fills a writer, builds, serializes,  *)
(* deserializes, projects and merges (Spec), one hands bytes to a decoder  *)
(* (SpecDecode).                                                           *)
(***************************************************************************)
pipeVars == <<writer, log, rec, stash, stashLog, buf, rd, out>>
valueVars == <<val, wout, rout>>
decodeVars == <<input, outcome>>

PipeIdle ==
    /\ writer = <<>> /\ log = <<>> /\ rec = <<>> /\ stash = <<>> /\ stashLog = <<>>
    /\ buf = <<>> /\ rd = <<>> /\ out = <<>>
ValueIdle == val = VNull /\ wout = <<>> /\ rout = <<>>
DecodeIdle == input = <<>> /\ outcome = <<>>

\* a Value and an empty buffer
InitValue == val \in ValueInputs /\ wout = <<>> /\ rout = <<>> /\ PipeIdle /\ DecodeIdle

\* val.write(&mut buf)
EncodeValue ==
    /\ wout = <<>>
    /\ \E o \in ValueWrites(val) : wout' = <<o>>
    /\ UNCHANGED <<val, rout, pipeVars, decodeVars>>

\* Value::read(val.type_code(), buf.freeze()) after a successful write
DecodeValue ==
    /\ wout # <<>> /\ wout[1].err = "" /\ rout = <<>>
    /\ rout' = <<ValueRead(val.t, wout[1].bytes)>>
    /\ UNCHANGED <<val, wout, pipeVars, decodeVars>>

NextValue == EncodeValue \/ DecodeValue

SpecValue == InitValue /\ [][NextValue]_vars

(***************************************************************************)
(* C2.  Homogeneous array round-trip: writing an Array whose elements all  *)
(* share one TypeCode succeeds, and reading the written bytes back with    *)
(* TypeCode Array gives the same elements in the same order and reports    *)
(* as consumed exactly the number of bytes that were written.              *)
(***************************************************************************)
ArrayRoundTrip ==
    (val.t = "Array" /\ WellFormed(val)) =>
        /\ wout # <<>> => wout[1].err = ""
        /\ rout # <<>> => /\ rout[1].kind = "Ok"
                          /\ rout[1].value = <<val>>
                          /\ rout[1].size = Len(wout[1].bytes)

\* an array of two non-empty maps has been written and read back
ArrayRoundTripWitness ==
    /\ val.t = "Array" /\ Len(val.e) = 2
    /\ val.e[1].t = "Map" /\ val.e[1].m # {} /\ val.e[2].m # {}
    /\ rout # <<>> /\ rout[1].kind = "Ok"

(***************************************************************************)
(* C3.  Homogeneous map round-trip: writing a Map with keys of one legal   *)
(* MapKey kind and values of one TypeCode succeeds in whatever order the   *)
(* entries are iterated, and reading the bytes back with TypeCode Map      *)
(* gives exactly the same set of (key, value) pairs.                       *)
(***************************************************************************)
MapRoundTrip ==
    (val.t = "Map" /\ WellFormed(val)) =>
        /\ wout # <<>> => wout[1].err = ""
        /\ rout # <<>> => /\ rout[1].kind = "Ok"
                          /\ rout[1].value[1].t = "Map"
                          /\ rout[1].value[1].m = val.m

\* a map of two entries, which has more than one encoding, has been read back
MapRoundTripWitness ==
    /\ val.t = "Map" /\ Cardinality(val.m) = 2
    /\ Cardinality(ValueWrites(val)) > 1
    /\ rout # <<>> /\ rout[1].kind = "Ok"

(***************************************************************************)
(* The record pipeline: a caller fills a writer, builds a record, and      *)
(* either serializes and deserializes it, projects it, keeps it and fills  *)
(* a second writer (which may nest the kept record as a Row), or merges    *)
(* the kept record with the second one.                                    *)
(***************************************************************************)
FieldIds == {1, 2, 3}
PrimIds == {1, 2}
AbsentId == 9
LookupIds == FieldIds \cup {AbsentId}

PrimValues ==
    {VNull, VBool(TRUE), VInt32(-7), VInt64(2, 1410065408), VFloat32(1069547520),
     VFloat64(-1074266112, 1), VBytes(<<0, 255>>), VString(<<104, 195, 169>>)}

SmallValues == {VNull, VInt32(-7), VString(<<104, 195, 169>>)}

NestedValues == SmallValues \cup {VRow(stash[i]) : i \in 1..Len(stash)}

Requests == UNION {[1..k -> FieldIds] : k \in 0..MaxReq}

Init ==
    /\ writer = <<WriterNew(MkSchemaId(1, 48879))>>
    /\ log = <<>> /\ rec = <<>> /\ stash = <<>> /\ stashLog = <<>>
    /\ buf = <<>> /\ rd = <<>> /\ out = <<>>
    /\ ValueIdle /\ DecodeIdle

\* writer.add_field(id, v)
AddField(id, v) ==
    /\ writer # <<>>
    /\ Len(log) + Len(stashLog) < MaxAdds
    /\ \E o \in WriterAddField(writer[1], id, v) :
          /\ o.err = ""
          /\ writer' = <<o.writer>>
          /\ log' = Append(log, <<id, v>>)
    /\ UNCHANGED <<rec, stash, stashLog, buf, rd, out, valueVars, decodeVars>>

\* let record = writer.build()
Build ==
    /\ writer # <<>> /\ rec = <<>>
    /\ rec' = <<WriterBuild(writer[1])>>
    /\ writer' = <<>>
    /\ UNCHANGED <<log, stash, stashLog, buf, rd, out, valueVars, decodeVars>>

\* the caller keeps the built record and makes a second writer
NewWriter(sid) ==
    /\ writer = <<>> /\ rec # <<>> /\ stash = <<>> /\ buf = <<>> /\ out = <<>>
    /\ stash' = rec /\ stashLog' = log
    /\ rec' = <<>> /\ log' = <<>>
    /\ writer' = <<WriterNew(sid)>>
    /\ UNCHANGED <<buf, rd, out, valueVars, decodeVars>>

\* record.write(&mut buf)
Serialize ==
    /\ rec # <<>> /\ buf = <<>> /\ out = <<>>
    /\ buf' = <<RecordWrite(rec[1]).bytes>>
    /\ UNCHANGED <<writer, log, rec, stash, stashLog, rd, out, valueVars, decodeVars>>

\* ImprintRecord::read(buf.freeze())
Deserialize ==
    /\ buf # <<>> /\ rd = <<>>
    /\ rd' = <<RecordRead(buf[1])>>
    /\ UNCHANGED <<writer, log, rec, stash, stashLog, buf, out, valueVars, decodeVars>>

\* record.project(ids)
ProjectOp(ids) ==
    /\ rec # <<>> /\ stash = <<>> /\ buf = <<>> /\ out = <<>>
    /\ out' = <<[op |-> "project", ids |-> ids, result |-> Project(rec[1], ids)]>>
    /\ UNCHANGED <<writer, log, rec, stash, stashLog, buf, rd, valueVars, decodeVars>>

\* kept.merge(&record)
MergeOp ==
    /\ rec # <<>> /\ stash # <<>> /\ buf = <<>> /\ out = <<>>
    /\ out' = <<[op |-> "merge", ids |-> <<>>, result |-> Merge(stash[1], rec[1])]>>
    /\ UNCHANGED <<writer, log, rec, stash, stashLog, buf, rd, valueVars, decodeVars>>

Next ==
    \/ \E id \in PrimIds, v \in PrimValues : AddField(id, v)
    \/ Build
    \/ Serialize
    \/ Deserialize

Spec == Init /\ [][Next]_vars

NextNested ==
    \/ \E id \in FieldIds, v \in NestedValues : AddField(id, v)
    \/ Build
    \/ \E sid \in SchemaIds : NewWriter(sid)
    \/ Serialize
    \/ Deserialize

SpecNested == Init /\ [][NextNested]_vars

NextOps ==
    \/ \E id \in FieldIds, v \in SmallValues : AddField(id, v)
    \/ Build
    \/ \E sid \in SchemaIds : NewWriter(sid)
    \/ \E ids \in Requests : ProjectOp(ids)
    \/ MergeOp

SpecOps == Init /\ [][NextOps]_vars

\* what the add_field calls of a log say about an id
Written(l, id) == \E i \in 1..Len(l) : l[i][1] = id
LastValue(l, id) == l[CHOOSE i \in 1..Len(l) : l[i][1] = id /\ \A j \in (i + 1)..Len(l) : l[j][1] # id][2]
WrittenIds(l) == {l[i][1] : i \in 1..Len(l)}

\* get_value(id) is Ok(Some(last value added for id)), or Ok(None) for an id never added
Agrees(r, l, id) ==
    IF Written(l, id)
    THEN GetValue(r, id).kind = "Ok" /\ GetValue(r, id).value = <<LastValue(l, id)>>
    ELSE GetValue(r, id).kind = "None"

(***************************************************************************)
(* C1.  Primitive round-trip: after a record built from primitive fields   *)
(* is written and read back, get_value(id) is Some(V) for every id that    *)
(* was added, V being the value added for it, and None, not an error, for  *)
(* every id that was not added.                                            *)
(***************************************************************************)
PrimitiveRoundTrip ==
    rd # <<>> =>
        /\ rd[1].kind = "Ok"
        /\ \A id \in LookupIds : Agrees(rd[1].value[1], log, id)

\* a record holding an Int64 and a String has been read back
PrimitiveRoundTripWitness ==
    /\ rd # <<>> /\ rd[1].kind = "Ok"
    /\ WrittenIds(log) = PrimIds
    /\ LastValue(log, 1).t = "String" /\ LastValue(log, 2).t = "Int64"
    /\ GetValue(rd[1].value[1], 2).kind = "Ok"
    /\ GetValue(rd[1].value[1], AbsentId).kind = "None"

(***************************************************************************)
(* C5.  Last write wins: the built directory holds exactly one entry for   *)
(* each distinct id that was added, and get_value(id) is the value, with   *)
(* the type, of the last add_field call for that id.                       *)
(***************************************************************************)
LastWriteWins ==
    rec # <<>> =>
        /\ DirectoryIds(rec[1]) = WrittenIds(log)
        /\ Len(rec[1].directory) = Cardinality(WrittenIds(log))
        /\ \A id \in LookupIds : Agrees(rec[1], log, id)
        /\ \A id \in WrittenIds(log) : EntryOf(rec[1], id).type_code = LastValue(log, id).t

\* an id was added twice, with values of two types, and the record is built
LastWriteWinsWitness ==
    /\ rec # <<>>
    /\ \E i, j \in 1..Len(log) : i < j /\ log[i][1] = log[j][1] /\ log[i][2].t # log[j][2].t

(***************************************************************************)
(* C6.  Directory order: whatever the order of the add_field calls, the    *)
(* ids of the built directory are strictly ascending.                      *)
(***************************************************************************)
DirectoryAscending ==
    rec # <<>> =>
        \A i, j \in 1..Len(rec[1].directory) :
            i < j => rec[1].directory[i].id < rec[1].directory[j].id

\* three ids were added in descending order, one of them twice, and the record is built
DirectoryAscendingWitness ==
    /\ rec # <<>> /\ Len(rec[1].directory) = 2
    /\ Len(log) = 3 /\ log[1][1] > log[2][1] /\ log[3][1] = log[1][1]

(***************************************************************************)
(* C4.  Nested record round-trip: after an outer record holding a Row      *)
(* field is written and read back, get_value of that field is a Row with   *)
(* the inner record's SchemaId, flags 0, the inner directory length and    *)
(* the inner field values, and the outer record's other fields are         *)
(* decoded unchanged.                                                      *)
(***************************************************************************)
NestedRoundTrip ==
    (rd # <<>> /\ stash # <<>>) =>
        /\ rd[1].kind = "Ok"
        /\ \A id \in LookupIds : Agrees(rd[1].value[1], log, id)
        /\ \A id \in WrittenIds(log) :
              LastValue(log, id).t = "Row" =>
                  LET inner == GetValue(rd[1].value[1], id).value[1].r[1]
                  IN  /\ inner.header.schema_id = stash[1].header.schema_id
                      /\ inner.header.flags = 0
                      /\ Len(inner.directory) = Cardinality(WrittenIds(stashLog))
                      /\ \A i \in LookupIds : Agrees(inner, stashLog, i)

\* an outer record with a Row of a one-field inner record, followed in the
\* payload by an Int32, has been read back
NestedRoundTripWitness ==
    /\ rd # <<>> /\ rd[1].kind = "Ok" /\ stash # <<>>
    /\ Len(stashLog) = 1 /\ stashLog[1][2].t = "String"
    /\ Len(log) = 2 /\ log[1] = <<1, VRow(stash[1])>> /\ log[2][1] = 2 /\ log[2][2].t = "Int32"
    /\ stash[1].header.schema_id # rd[1].value[1].header.schema_id

(***************************************************************************)
(* C7.  Projection correctness: project(ids) returns a record whose        *)
(* directory is the ascending, duplicate-free list of the requested ids    *)
(* that the source holds, whose value at each such id is the source's      *)
(* value, and which holds no other id.                                     *)
(***************************************************************************)
ProjectionCorrect ==
    (out # <<>> /\ out[1].op = "project") =>
        LET p == out[1].result
            want == WrittenIds(log) \cap {out[1].ids[i] : i \in 1..Len(out[1].ids)}
        IN  /\ [i \in 1..Len(p.directory) |-> p.directory[i].id] = SortedIds(want)
            /\ \A id \in want : GetValue(p, id) = GetValue(rec[1], id) /\ Agrees(p, log, id)
            /\ \A id \in LookupIds \ want : GetValue(p, id).kind = "None"

\* a source in which a Null shares its offset with a field of a smaller id
\* has been projected on both, requested in descending order
ProjectionCorrectWitness ==
    /\ out # <<>> /\ out[1].op = "project"
    /\ Len(out[1].ids) = 2 /\ out[1].ids[1] > out[1].ids[2]
    /\ Len(out[1].result.directory) = 2
    /\ EntryOf(rec[1], out[1].ids[1]).type_code = "Null"
    /\ EntryOf(rec[1], out[1].ids[2]).type_code # "Null"
    /\ EntryOf(rec[1], out[1].ids[1]).offset = EntryOf(rec[1], out[1].ids[2]).offset

(***************************************************************************)
(* C8.  Merge law: self.merge(other) holds the union of both id sets in    *)
(* ascending order, and its value at each id is self's value when self     *)
(* holds the id and other's value otherwise.                               *)
(***************************************************************************)
MergeLaw ==
    (out # <<>> /\ out[1].op = "merge") =>
        LET m == out[1].result
            all == WrittenIds(stashLog) \cup WrittenIds(log)
        IN  /\ [i \in 1..Len(m.directory) |-> m.directory[i].id] = SortedIds(all)
            /\ \A id \in all :
                  /\ GetValue(m, id).kind = "Ok"
                  /\ GetValue(m, id) = IF id \in DirectoryIds(stash[1])
                                       THEN GetValue(stash[1], id) ELSE GetValue(rec[1], id)
                  /\ GetValue(m, id).value = IF Written(stashLog, id)
                                             THEN <<LastValue(stashLog, id)>>
                                             ELSE <<LastValue(log, id)>>
            /\ \A id \in LookupIds \ all : GetValue(m, id).kind = "None"

\* self holds id 3, other holds ids 2 and 3 with another value at 3
MergeLawWitness ==
    /\ out # <<>> /\ out[1].op = "merge"
    /\ WrittenIds(stashLog) = {3} /\ WrittenIds(log) = {2, 3}
    /\ LastValue(stashLog, 3) # LastValue(log, 3)
    /\ Len(out[1].result.directory) = 2

(***************************************************************************)
(* Decoding bytes that no writer vouches for.  The caller assembles an     *)
(* input from a header (as the tests do, byte by byte) and loose bytes,    *)
(* and hands it to Value::read under some TypeCode or to                   *)
(* ImprintRecord::read.                                                    *)
(***************************************************************************)
FuzzBytes == {0, 1, 2, 9, 11, 128, 255}
FuzzMagics == {MAGIC, 0}
FuzzVersions == {VERSION, 255}
FuzzFlags == {0, 255}
FuzzSizes == {0, 1, 2}
\* the loose bytes of an input: all but its header
LooseLen(bytes) ==
    Len(bytes) - (IF Len(bytes) >= HEADER_BYTES THEN HEADER_BYTES ELSE 0)

InitDecode == input = <<>> /\ outcome = <<>> /\ PipeIdle /\ ValueIdle

\* buf.put_u8(magic); buf.put_u8(version); buf.put_u8(flags); schema id; payload_size
PutHeader(m, v, f, size) ==
    /\ input = <<>> /\ outcome = <<>>
    /\ input' = <<m, v, f>> \o SchemaIdWrite(MkSchemaId(1, 48879)) \o PutWord(size)
    /\ UNCHANGED <<outcome, pipeVars, valueVars>>

\* buf.put_u8(b)
PushByte(b) ==
    /\ LooseLen(input) < MaxInput /\ outcome = <<>>
    /\ input' = Append(input, b)
    /\ UNCHANGED <<outcome, pipeVars, valueVars>>

\* Value::read(tc, input)
DecodeAs(tc) ==
    /\ outcome = <<>>
    /\ outcome' = <<[decoder |-> tc, result |-> ValueRead(tc, input)]>>
    /\ UNCHANGED <<input, pipeVars, valueVars>>

\* ImprintRecord::read(input)
DecodeRecord ==
    /\ outcome = <<>>
    /\ outcome' = <<[decoder |-> "Record", result |-> RecordRead(input)]>>
    /\ UNCHANGED <<input, pipeVars, valueVars>>

NextDecode ==
    \/ \E m \in FuzzMagics, v \in FuzzVersions, f \in FuzzFlags, size \in FuzzSizes :
          PutHeader(m, v, f, size)
    \/ \E b \in FuzzBytes : PushByte(b)
    \/ \E tc \in AllKinds : DecodeAs(tc)
    \/ DecodeRecord

SpecDecode == InitDecode /\ [][NextDecode]_vars

\* ImprintRecord::read of the first k bytes of a serialized record
ReadPrefix(k) ==
    /\ buf # <<>> /\ outcome = <<>>
    /\ k < Len(buf[1])
    /\ input' = Take(buf[1], k)
    /\ outcome' = <<[decoder |-> "Record", result |-> RecordRead(Take(buf[1], k))]>>
    /\ UNCHANGED <<pipeVars, valueVars>>

NextTruncate ==
    \/ \E id \in FieldIds, v \in SmallValues : AddField(id, v)
    \/ Build
    \/ Serialize
    \/ \E k \in 0..(HEADER_BYTES + 1 + MaxAdds * (DIR_ENTRY_BYTES + 4)) : ReadPrefix(k)

SpecTruncate == Init /\ [][NextTruncate]_vars

\* the closed error taxonomy (spec section 4.8)
ErrorKinds ==
    {"InvalidMagic", "UnsupportedVersion", "BufferUnderflow", "InvalidTypeCode",
     "InvalidUtf8String", "InvalidBool", "SchemaError", "SizeOverflow", "VarintError"}

(***************************************************************************)
(* C9.  No panics on malformed input: for every TypeCode and every byte    *)
(* sequence, Value::read and ImprintRecord::read return Ok or an error of  *)
(* the taxonomy; they never panic.                                         *)
(***************************************************************************)
NoPanicOnMalformedInput ==
    outcome # <<>> =>
        \/ outcome[1].result.kind = "Ok"
        \/ outcome[1].result.kind = "Err" /\ outcome[1].result.err \in ErrorKinds

(***************************************************************************)
(* C10.  Truncated input yields BufferUnderflow: ImprintRecord::read of    *)
(* every strict prefix of a serialized record returns                      *)
(* Err(BufferUnderflow).                                                   *)
(***************************************************************************)
TruncatedIsUnderflow ==
    outcome # <<>> =>
        outcome[1].result.kind = "Err" /\ outcome[1].result.err = "BufferUnderflow"

(***************************************************************************)
(* C11.  InvalidMagic: for every non-empty input whose first byte differs  *)
(* from MAGIC, whatever its length and remaining bytes,                    *)
(* ImprintRecord::read returns Err(InvalidMagic).                          *)
(***************************************************************************)
WrongMagicIsInvalidMagic ==
    (outcome # <<>> /\ outcome[1].decoder = "Record" /\ input # <<>> /\ input[1] # MAGIC) =>
        outcome[1].result.kind = "Err" /\ outcome[1].result.err = "InvalidMagic"

(***************************************************************************)
(* C13.  InvalidBool: Value::read with TypeCode Bool returns false for the *)
(* byte 0, true for the byte 1, and the error InvalidBool, and no other    *)
(* error kind, for any other byte.                                         *)
(***************************************************************************)
BadBoolIsInvalidBool ==
    (outcome # <<>> /\ outcome[1].decoder = "Bool" /\ input # <<>>) =>
        LET r == outcome[1].result
        IN  IF input[1] \in {0, 1}
            THEN r.kind = "Ok" /\ r.value[1] = VBool(input[1] = 1)
            ELSE r.kind = "Err" /\ r.err = "InvalidBool"

(***************************************************************************)
(* C18.  Decode allocation is bounded by the input: Value::read of n bytes *)
(* with TypeCode Array or Map never reserves space for, nor returns, more  *)
(* than n elements or pairs.                                               *)
(***************************************************************************)
AllocationBoundedByInput ==
    (outcome # <<>> /\ outcome[1].decoder \in {"Array", "Map"}) =>
        LET r == outcome[1].result
        IN  /\ r.cap <= Len(input)
            /\ r.kind = "Ok" =>
                  /\ Len(r.value[1].e) <= Len(input)
                  /\ Cardinality(r.value[1].m) <= Len(input)

(***************************************************************************)
(* C17.  Deterministic map encoding: Value::write of a Map produces the    *)
(* same byte sequence whatever the iteration order of the in-memory map.   *)
(***************************************************************************)
MapEncodingDeterministic ==
    (val.t = "Map" /\ wout # <<>>) =>
        \A o \in ValueWrites(val) : o = wout[1]

(***************************************************************************)
(* Decoding a record put together by hand: a header, a count, directory    *)
(* entries and loose bytes, in that order, read by ImprintRecord::read and *)
(* the record read written again by ImprintRecord::write.                  *)
(***************************************************************************)
WireBytes == {0, 7, 255}
WireCounts == {0, 1, 2}
WireEntries == {MkEntry(2, "Int32", 0), MkEntry(1, "Null", 9)}

\* the directory count of an input, as ImprintRecord::read decodes it
FramedCount(bytes) == VarintDecode(Drop(bytes, HEADER_BYTES))

\* the whole directory entries an input holds after its count
EntriesPut(bytes) ==
    LET c == FramedCount(bytes)
        k == (Len(bytes) - HEADER_BYTES - c.size) \div DIR_ENTRY_BYTES
    IN  IF k < c.value THEN k ELSE c.value

\* the bytes of an input after its header, count and whole entries
TailLen(bytes) ==
    Len(bytes) - HEADER_BYTES - FramedCount(bytes).size - DIR_ENTRY_BYTES * EntriesPut(bytes)

\* varint::encode(n, &mut buf), or the same count with a redundant continuation byte
PutCount(n, padded) ==
    /\ Len(input) = HEADER_BYTES /\ outcome = <<>>
    /\ input' = input \o (IF padded THEN <<128 + n, 0>> ELSE VarintEncode(n))
    /\ UNCHANGED <<outcome, pipeVars, valueVars>>

\* entry.write(&mut buf), while the directory is incomplete
PutEntry(e) ==
    /\ Len(input) > HEADER_BYTES /\ outcome = <<>>
    /\ TailLen(input) = 0
    /\ EntriesPut(input) < FramedCount(input).value
    /\ input' = input \o DirectoryEntryWrite(e)
    /\ UNCHANGED <<outcome, pipeVars, valueVars>>

\* buf.put_u8(b) after the count
PushTail(b) ==
    /\ Len(input) > HEADER_BYTES /\ outcome = <<>>
    /\ TailLen(input) < MaxInput
    /\ input' = Append(input, b)
    /\ UNCHANGED <<outcome, pipeVars, valueVars>>

\* record.write(&mut buf) of the record ImprintRecord::read returned
Rewrite ==
    /\ outcome # <<>> /\ outcome[1].decoder = "Record" /\ outcome[1].result.kind = "Ok"
    /\ buf = <<>>
    /\ buf' = <<RecordWrite(outcome[1].result.value[1]).bytes>>
    /\ UNCHANGED <<writer, log, rec, stash, stashLog, rd, out, valueVars, decodeVars>>

NextWire ==
    \/ \E m \in FuzzMagics, v \in FuzzVersions, f \in FuzzFlags, size \in FuzzSizes :
          PutHeader(m, v, f, size)
    \/ \E n \in WireCounts, padded \in BOOLEAN : PutCount(n, padded)
    \/ \E e \in WireEntries : PutEntry(e)
    \/ \E b \in WireBytes : PushTail(b)
    \/ DecodeRecord
    \/ Rewrite

SpecWire == InitDecode /\ [][NextWire]_vars

(***************************************************************************)
(* C12.  UnsupportedVersion: for every input of at least 15 bytes whose    *)
(* first byte is MAGIC and whose second byte differs from VERSION,         *)
(* ImprintRecord::read returns Err(UnsupportedVersion), whatever the       *)
(* flags, payload_size and following bytes are.                            *)
(***************************************************************************)
WrongVersionIsUnsupported ==
    (/\ outcome # <<>> /\ outcome[1].decoder = "Record"
     /\ Len(input) >= HEADER_BYTES /\ input[1] = MAGIC /\ input[2] # VERSION) =>
        outcome[1].result.kind = "Err" /\ outcome[1].result.err = "UnsupportedVersion"

WrongVersionIsUnsupportedWitness ==
    /\ outcome # <<>> /\ outcome[1].decoder = "Record"
    /\ Len(input) > HEADER_BYTES + DIR_ENTRY_BYTES
    /\ input[1] = MAGIC /\ input[2] # VERSION /\ input[3] = 255
    /\ GetU32(SubSeq(input, 12, 15)) = 2
    /\ outcome[1].result.err = "UnsupportedVersion"

(***************************************************************************)
(* C19.  Pass-through is byte-exact: when ImprintRecord::read succeeds on  *)
(* an input consuming k bytes and the input's directory count is a         *)
(* minimal-length varint, ImprintRecord::write of the record read appends  *)
(* exactly the first k bytes of the input: the flags byte is kept whole    *)
(* and the directory entries keep their input order, ascending or not,     *)
(* valid offsets or not.                                                   *)
(***************************************************************************)
MinimalCount(bytes) ==
    FramedCount(bytes).size = Len(VarintEncode(FramedCount(bytes).value))

PassThroughExact ==
    (buf # <<>> /\ outcome # <<>> /\ MinimalCount(input)) =>
        buf[1] = Take(input, outcome[1].result.size)

PassThroughExactWitness ==
    /\ buf # <<>> /\ outcome # <<>> /\ MinimalCount(input)
    /\ input[3] = 255
    /\ LET r == outcome[1].result.value[1]
       IN  /\ Len(r.directory) = 2
           /\ r.directory[1].id > r.directory[2].id
           /\ r.directory[2].offset > Len(r.payload)
           /\ Len(r.payload) = 1
    /\ Len(input) > outcome[1].result.size
    /\ buf[1] = Take(input, outcome[1].result.size)

(***************************************************************************)
(* C15.  Serialized layout and size: for a record with n directory entries *)
(* whose header.payload_size equals its payload length,                    *)
(* ImprintRecord::write appends the 15 header bytes (MAGIC, VERSION,       *)
(* flags, fieldspace_id, schema_hash, payload_size, the three words little *)
(* endian), varint(n), the n entries of 7 bytes (id u16 LE, type code,     *)
(* offset u32 LE) in directory order, then the payload; in all             *)
(* 15 + varint_size(n) + 7n + payload_size bytes.                          *)
(***************************************************************************)
SerializedLayout ==
    (buf # <<>> /\ rec # <<>> /\ rec[1].header.payload_size = Len(rec[1].payload)) =>
        LET r == rec[1]
            b == buf[1]
            n == Len(r.directory)
            cs == Len(VarintEncode(n))
            dirEnd == HEADER_BYTES + cs + DIR_ENTRY_BYTES * n
        IN  /\ Len(b) = 15 + cs + 7 * n + r.header.payload_size
            /\ b[1] = MAGIC /\ b[2] = VERSION /\ b[3] = r.header.flags
            /\ b[4] + 256 * b[5] + 65536 * b[6] + 16777216 * b[7]
                   = r.header.schema_id.fieldspace_id
            /\ b[8] + 256 * b[9] + 65536 * b[10] + 16777216 * b[11]
                   = r.header.schema_id.schema_hash
            /\ b[12] + 256 * b[13] + 65536 * b[14] + 16777216 * b[15]
                   = r.header.payload_size
            /\ SubSeq(b, 16, 15 + cs) = VarintEncode(n)
            /\ \A i \in 1..n :
                  LET o == 15 + cs + 7 * (i - 1)
                  IN  /\ b[o + 1] + 256 * b[o + 2] = r.directory[i].id
                      /\ b[o + 3] = TypeCodeByte(r.directory[i].type_code)
                      /\ b[o + 4] + 256 * b[o + 5] + 65536 * b[o + 6] + 16777216 * b[o + 7]
                             = r.directory[i].offset
            /\ SubSeq(b, dirEnd + 1, Len(b)) = r.payload

SerializedLayoutWitness ==
    /\ buf # <<>> /\ rec # <<>>
    /\ Len(rec[1].directory) = 2
    /\ rec[1].directory[2].offset > 0
    /\ rec[1].header.payload_size = Len(rec[1].payload)
    /\ Len(rec[1].payload) > 4
    /\ Len(buf[1]) = 15 + 1 + 14 + Len(rec[1].payload)

(***************************************************************************)
(* Reading a serialized record that is followed by other bytes.            *)
(***************************************************************************)
Suffixes == UNION {[1..k -> WireBytes] : k \in 1..MaxInput}

\* ImprintRecord::read of the serialized record with s appended
ReadWithSuffix(s) ==
    /\ buf # <<>> /\ outcome = <<>>
    /\ input' = buf[1] \o s
    /\ outcome' = <<[decoder |-> "Record", result |-> RecordRead(buf[1] \o s)]>>
    /\ UNCHANGED <<pipeVars, valueVars>>

NextSuffix ==
    \/ \E id \in FieldIds, v \in SmallValues : AddField(id, v)
    \/ Build
    \/ Serialize
    \/ \E s \in Suffixes : ReadWithSuffix(s)

SpecSuffix == Init /\ [][NextSuffix]_vars

(***************************************************************************)
(* C16.  Trailing bytes are not consumed: for a serialized record r and a  *)
(* byte suffix s, ImprintRecord::read(r ++ s) returns the header,          *)
(* directory and payload that ImprintRecord::read(r) returns, and reports  *)
(* len(r) = 15 + count-varint size + 7n + payload_size bytes read, so the  *)
(* payload holds no byte of s.                                             *)
(***************************************************************************)
TrailingBytesIgnored ==
    (buf # <<>> /\ outcome # <<>>) =>
        LET got == outcome[1].result
            alone == RecordRead(buf[1])
        IN  /\ alone.kind = "Ok" /\ got.kind = "Ok"
            /\ got.value = alone.value
            /\ got.size = Len(buf[1])
            /\ got.size = 15 + Len(VarintEncode(Len(got.value[1].directory)))
                             + 7 * Len(got.value[1].directory)
                             + got.value[1].header.payload_size
            /\ got.value[1].payload = rec[1].payload

TrailingBytesIgnoredWitness ==
    /\ buf # <<>> /\ outcome # <<>>
    /\ Len(input) = Len(buf[1]) + MaxInput
    /\ input[Len(input)] = 255
    /\ outcome[1].result.kind = "Ok"
    /\ Len(outcome[1].result.value[1].directory) = 2
    /\ Len(outcome[1].result.value[1].payload) > 0
    /\ outcome[1].result.size = Len(buf[1])

(***************************************************************************)
(* Writing values that need not be homogeneous.                            *)
(***************************************************************************)
MixedElems ==
    {VNull, VInt32(-7), VString(<<104, 105>>), VArray(<<VInt32(258)>>),
     VArray(<<VNull, VInt32(1)>>)}
MixedKeys == {VInt32(1), VInt32(-2), VString(<<97>>)}
MixedValues == {VNull, VInt32(-7), VArray(<<VNull, VInt32(1)>>)}

MixedInputs ==
    UNION { {VArray(e) : e \in [1..k -> MixedElems]} : k \in 0..(MaxElems + 1) }
    \cup {VMap(m) : m \in MapsOf(MixedKeys, MixedValues)}

InitMixed == val \in MixedInputs /\ wout = <<>> /\ rout = <<>> /\ PipeIdle /\ DecodeIdle

SpecMixed == InitMixed /\ [][NextValue]_vars

\* every write of v succeeds
Encodes(v) == \A o \in ValueWrites(v) : o.err = ""

(***************************************************************************)
(* C14.  Homogeneity check on encode: Value::write of an Array returns     *)
(* Err(SchemaError) whenever some element's TypeCode differs from the      *)
(* first element's, at any position; Value::write of a Map returns         *)
(* Err(SchemaError) whenever some key's or some value's TypeCode differs   *)
(* from the first entry's; when all type codes agree and every element     *)
(* encodes, the write succeeds.                                            *)
(***************************************************************************)
HomogeneityChecked ==
    wout # <<>> =>
        LET arrayMixed == \E i \in 1..Len(val.e) : val.e[i].t # val.e[1].t
            mapMixed == \E p, q \in val.m : p[1].t # q[1].t \/ p[2].t # q[2].t
        IN  /\ (val.t = "Array" /\ arrayMixed) => wout[1].err = "SchemaError"
            /\ (val.t = "Map" /\ mapMixed) => wout[1].err = "SchemaError"
            /\ (/\ val.t = "Array" /\ ~arrayMixed
                /\ \A i \in 1..Len(val.e) : Encodes(val.e[i])) => wout[1].err = ""
            /\ (/\ val.t = "Map" /\ ~mapMixed
                /\ \A p \in val.m : Encodes(p[2])) => wout[1].err = ""

HomogeneityCheckedWitness ==
    /\ wout # <<>> /\ val.t = "Array" /\ Len(val.e) = 3
    /\ val.e[1].t = val.e[2].t /\ val.e[3].t # val.e[1].t
    /\ wout[1].err = "SchemaError"

====
